---- MODULE Spec2Model ----
(***************************************************************************)
(* Model of the Wahapedia CSV importer in its two variants:                *)
(*   "supabase"  src/02_import_from_web.py (REST client, every request is  *)
(*               committed on its own)                                     *)
(*   "psycopg2"  src/03_import_from_web.py (one transaction per run)       *)
(* main() is cut into its steps: the first download of Last_update.csv,    *)
(* the gate, the download loop, one step per import function, the end.     *)
(***************************************************************************)
EXTENDS Integers, Sequences, FiniteSets, Bags, TLC

\* ------------------------------------------------------------------------
\* Bounds
\* ------------------------------------------------------------------------
MaxLen == 2          \* data rows in the file under study
MaxRuns == 2         \* runs of main() in one behaviour
MaxMarker == 2       \* freshness markers are the seconds 1..MaxMarker
MaxFailed == 1       \* downloads of step 2 that fail in one run
MaxStr == 5          \* characters of a string handed to a conversion

\* ------------------------------------------------------------------------
\* Configuration of the program
\* ------------------------------------------------------------------------
\* an order that imports the first dependent before the datasheets
CSV_FILES_dependent_first ==
  << "Last_update.csv", "Factions.csv", "Source.csv", "Stratagems.csv",
     "Abilities.csv", "Enhancements.csv", "Detachment_abilities.csv",
     "Datasheets_unit_composition.csv", "Datasheets.csv",
     "Datasheets_abilities.csv", "Datasheets_keywords.csv",
     "Datasheets_models.csv", "Datasheets_options.csv",
     "Datasheets_wargear.csv", "Datasheets_models_cost.csv",
     "Datasheets_stratagems.csv", "Datasheets_enhancements.csv",
     "Datasheets_detachment_abilities.csv", "Datasheets_leader.csv" >>

CSV_FILES ==
  << "Last_update.csv", "Factions.csv", "Source.csv", "Stratagems.csv",
     "Abilities.csv", "Enhancements.csv", "Detachment_abilities.csv",
     "Datasheets.csv", "Datasheets_abilities.csv", "Datasheets_keywords.csv",
     "Datasheets_models.csv", "Datasheets_options.csv",
     "Datasheets_wargear.csv", "Datasheets_unit_composition.csv",
     "Datasheets_models_cost.csv", "Datasheets_stratagems.csv",
     "Datasheets_enhancements.csv", "Datasheets_detachment_abilities.csv",
     "Datasheets_leader.csv" >>

Variants == {"supabase", "psycopg2"}

Range(s) == {s[i] : i \in 1..Len(s)}

Files == Range(CSV_FILES)

RootFiles ==
  {"Factions.csv", "Source.csv", "Stratagems.csv", "Abilities.csv",
   "Enhancements.csv", "Detachment_abilities.csv", "Datasheets.csv"}

\* the roots whose import function replaces a blank faction_id and
\* deduplicates by id in the supabase variant
FactionRoots == RootFiles \ {"Factions.csv", "Source.csv"}

DepFiles == Files \ (RootFiles \cup {"Last_update.csv"})

\* dependents whose only foreign key is the owner datasheet_id
LineFiles ==
  {"Datasheets_models.csv", "Datasheets_options.csv", "Datasheets_wargear.csv",
   "Datasheets_unit_composition.csv", "Datasheets_models_cost.csv"}

\* junction files: datasheet_id plus a reference to a second root
LinkFiles ==
  {"Datasheets_stratagems.csv", "Datasheets_enhancements.csv",
   "Datasheets_detachment_abilities.csv"}

\* the root a dependent's second reference points to
RefRoot(f) ==
  CASE f = "Datasheets_abilities.csv" -> "Abilities.csv"
    [] f = "Datasheets_stratagems.csv" -> "Stratagems.csv"
    [] f = "Datasheets_enhancements.csv" -> "Enhancements.csv"
    [] f = "Datasheets_detachment_abilities.csv" -> "Detachment_abilities.csv"
    [] f = "Datasheets_leader.csv" -> "Datasheets.csv"
    [] OTHER -> "none"

\* the position of a file in CSV_FILES
IndexOf(f) == CHOOSE i \in 1..Len(CSV_FILES) : CSV_FILES[i] = f

\* the files whose entities the rows of f refer to by a foreign key
References(f) ==
  CASE f = "Datasheets.csv" -> {"Factions.csv", "Source.csv"}
    [] f \in FactionRoots \ {"Datasheets.csv"} -> {"Factions.csv"}
    [] f \in DepFiles ->
         {"Datasheets.csv", "Abilities.csv", "Stratagems.csv", "Enhancements.csv",
          "Detachment_abilities.csv"}
    [] OTHER -> {}

\* ------------------------------------------------------------------------
\* Values
\* ------------------------------------------------------------------------
\* Python's None is the empty tuple, a present value v is <<v>>
None == << >>
Some(v) == << v >>

DatasheetIds == {"d1", "d2"}
RefIds == {"k1", "k2"}

\* A timestamp string of Last_update.csv: either in the format
\* '%Y-%m-%d %H:%M:%S' (secs is the instant it denotes) or not.
MarkerStrings ==
  [fmt : {"ymd_hms"}, secs : 1..MaxMarker] \cup {[fmt |-> "garbage", secs |-> 0]}

\* suffixes an ISO timestamp string returned by the REST store can carry
TzSuffixes == {"", "Z", "+00:00"}

\* ------------------------------------------------------------------------
\* Helper functions
\* ------------------------------------------------------------------------
\* the indexes i of 1..n with P(i), ascending
SelectIdx(n, P(_)) ==
  LET F[i \in 0..n] ==
        IF i = 0 THEN << >>
        ELSE IF P(i) THEN Append(F[i - 1], i) ELSE F[i - 1]
  IN F[n]

\* [row for row in rows if P(row)]
Filter(rows, P(_)) ==
  LET idx == SelectIdx(Len(rows), LAMBDA i : P(rows[i]))
  IN [j \in 1..Len(idx) |-> rows[idx[j]]]

\* number of positions of rows that satisfy P
CountRows(rows, P(_)) == Cardinality({i \in 1..Len(rows) : P(rows[i])})

\* the rows of a sequence as a multiset
BagOfSeq(rows) ==
  [r \in Range(rows) |-> Cardinality({i \in 1..Len(rows) : rows[i] = r})]

\* the rows of a table (a multiset) that satisfy P
BagSelect(B, P(_)) == [r \in {x \in DOMAIN B : P(x)} |-> B[r]]

\* The value of a converted column is a string spelled out as the sequence
\* of its characters ('' is << >>); row.get() gives None for a missing column.
Chars == {"t", "T", "r", "u", "e", "E", " ", "1", "."}

Strings == UNION {[1..n -> Chars] : n \in 0..MaxStr}

Str_true == << "t", "r", "u", "e" >>
Str_false == << "f", "a", "l", "s", "e" >>

\* str.lower(), character by character
lower_char(c) ==
  CASE c = "T" -> "t"
    [] c = "E" -> "e"
    [] OTHER -> c

Lower(s) == [i \in 1..Len(s) |-> lower_char(s[i])]

\* the conversion without .lower()
convert_boolean_exact(value) ==
  IF value = None \/ value = Some(<< >>) THEN None
  ELSE Some(value[1] = Str_true)

convert_boolean(value) ==
  IF value = None \/ value = Some(<< >>) THEN None
  ELSE Some(Lower(value[1]) = Str_true)

\* str.strip() of the blanks int() ignores around the digits
strip(s) ==
  LET inner == {i \in 1..Len(s) : s[i] # " "}
  IN IF inner = {} THEN << >>
     ELSE SubSeq(s, CHOOSE i \in inner : \A j \in inner : i <= j,
                    CHOOSE i \in inner : \A j \in inner : j <= i)

Digits == {"0", "1", "2", "3", "4", "5", "6", "7", "8", "9"}

DigitVal ==
  [c \in Digits |->
     CASE c = "0" -> 0 [] c = "1" -> 1 [] c = "2" -> 2 [] c = "3" -> 3
       [] c = "4" -> 4 [] c = "5" -> 5 [] c = "6" -> 6 [] c = "7" -> 7
       [] c = "8" -> 8 [] OTHER -> 9]

\* int(s) returns for digits with blanks around them; every other string
\* of the alphabet raises ValueError
int_ok(s) == strip(s) # << >> /\ \A i \in 1..Len(strip(s)) : strip(s)[i] \in Digits

int_value(s) ==
  LET t == strip(s)
      F[i \in 0..Len(t)] == IF i = 0 THEN 0 ELSE 10 * F[i - 1] + DigitVal[t[i]]
  IN F[Len(t)]

\* a conversion that reads the digits of a string and drops the rest
convert_int_lenient(value) ==
  IF value = None \/ value = Some(<< >>) THEN None
  ELSE LET digits == SelectIdx(Len(value[1]), LAMBDA i : value[1][i] \in Digits)
       IN IF Len(digits) = 0 THEN None
          ELSE Some(int_value([k \in 1..Len(digits) |-> value[1][digits[k]]]))

\* the except branch of ValueError returns None
convert_int(value) ==
  IF value = None \/ value = Some(<< >>) THEN None
  ELSE IF int_ok(value[1]) THEN Some(int_value(value[1])) ELSE None

\* str.split(sep): the segments between the separators, '' included
split(s, sep) ==
  LET seps == SelectIdx(Len(s), LAMBDA i : s[i] = sep)
      cut == << 0 >> \o seps \o << Len(s) + 1 >>
  IN [k \in 1..(Len(seps) + 1) |-> SubSeq(s, cut[k] + 1, cut[k + 1] - 1)]

\* a zfill that pads nothing
zfill_none(s, width) == s

\* str.zfill(width) of a string without a sign
zfill(s, width) ==
  IF Len(s) >= width THEN s ELSE [i \in 1..(width - Len(s)) |-> "0"] \o s

\* the except branch returns None as well; no step of the body raises on a
\* string
convert_date(value) ==
  IF value = None \/ value = Some(<< >>) THEN None
  ELSE LET date_part == split(value[1], " ")[1]
           parts == split(date_part, ".")
       IN IF Len(parts) = 3
          THEN Some(parts[3] \o << "-" >> \o zfill(parts[2], 2) \o << "-" >> \o zfill(parts[1], 2))
          ELSE None

\* dates as Source.csv spells them, with and without a time of day
DateStrings ==
  {day \o << "." >> \o month \o << "." >> \o year \o time :
     day \in {<< "5" >>, << "0", "5" >>, << "1", "5" >>},
     month \in {<< "3" >>, << "0", "3" >>, << "1", "2" >>},
     year \in {<< "2", "0", "2", "4" >>},
     time \in {<< >>, << " ", "0", ":", "0", "0", ":", "0", "0" >>}}
  \cup {<< "2", "0", "2", "4" >>, << "5", ".", "3" >>, << "5", ".", "3", ".", "2", "4", ".", "1" >>}

\* seen = {}; for row in rows: seen[key(row)] = row; list(seen.values())
\* a dict keeps the position of the first row of a key and the value of
\* the last one
dict_values(rows, Key(_)) ==
  LET n == Len(rows)
      first == SelectIdx(n, LAMBDA i : \A j \in 1..(i - 1) : Key(rows[j]) # Key(rows[i]))
      last(i) == CHOOSE j \in i..n :
                   /\ Key(rows[j]) = Key(rows[i])
                   /\ \A k \in (j + 1)..n : Key(rows[k]) # Key(rows[i])
  IN [m \in 1..Len(first) |-> rows[last(first[m])]]

\* ------------------------------------------------------------------------
\* Change-detection gate
\* ------------------------------------------------------------------------
\* datetime.strptime(s, '%Y-%m-%d %H:%M:%S'): a naive datetime, or ValueError
strptime_ok(s) == s.fmt = "ymd_hms"
strptime(s) == [secs |-> s.secs, aware |-> FALSE]

\* what the REST store returns for a stored timestamp
iso_string(secs, tz) == [fmt |-> "iso", secs |-> secs, tz |-> tz]

\* datetime.fromisoformat(s.replace('Z', '+00:00')): aware iff an offset is left
fromisoformat(s) ==
  LET replaced == IF s.tz = "Z" THEN "+00:00" ELSE s.tz
  IN [secs |-> s.secs, aware |-> replaced # ""]

SetMax(S) == CHOOSE m \in S : \A x \in S : x <= m

\* ... order('last_update', desc=True).limit(1): the rows of response.data
select_latest(last_update, tz) ==
  IF last_update = {} THEN << >>
  ELSE << iso_string(SetMax(last_update), tz) >>

\* the gate of src/02 with the comparison new_ts < existing: a marker equal
\* to the stored one is taken for new data
check_if_update_needed_supabase_lt(last_update, tz, new_update_time) ==
  LET data == select_latest(last_update, tz)
  IN IF Len(data) = 0 THEN "import"
     ELSE IF ~strptime_ok(new_update_time) THEN "import"
     ELSE IF fromisoformat(data[1]).aware THEN "import"
     ELSE IF strptime(new_update_time).secs < fromisoformat(data[1]).secs
          THEN "skip" ELSE "import"

\* src/02: the result is TRUE (import), FALSE (skip); every exception inside
\* ends in the except branch, which returns TRUE
check_if_update_needed_supabase(last_update, tz, new_update_time) ==
  LET data == select_latest(last_update, tz)
      existing_update_time == IF Len(data) > 0 THEN Some(fromisoformat(data[1])) ELSE None
  IN IF existing_update_time = None THEN "import"
     ELSE IF ~strptime_ok(new_update_time) THEN "import"           \* ValueError
     ELSE IF existing_update_time[1].aware THEN "import"             \* TypeError: naive <= aware
     ELSE IF strptime(new_update_time).secs <= existing_update_time[1].secs
          THEN "skip" ELSE "import"

\* the gate of src/03 with the comparison new_ts < existing
check_if_update_needed_psycopg2_lt(last_update, new_update_time) ==
  IF last_update = {} THEN "import"
  ELSE IF ~strptime_ok(new_update_time) THEN "raise"
  ELSE IF strptime(new_update_time).secs < SetMax(last_update)
       THEN "skip" ELSE "import"

\* src/03: SELECT MAX(last_update); nothing is caught here, so a ValueError
\* of strptime leaves the function
check_if_update_needed_psycopg2(last_update, new_update_time) ==
  LET existing_update_time == IF last_update = {} THEN None ELSE Some(SetMax(last_update))
  IN IF existing_update_time = None THEN "import"
     ELSE IF ~strptime_ok(new_update_time) THEN "raise"
     ELSE IF strptime(new_update_time).secs <= existing_update_time[1]
          THEN "skip" ELSE "import"

check_if_update_needed(v, last_update, tz, new_update_time) ==
  IF v = "supabase"
  THEN check_if_update_needed_supabase(last_update, tz, new_update_time)
  ELSE check_if_update_needed_psycopg2(last_update, new_update_time)

\* the read of the stored marker fails: src/02 catches the exception inside
\* the gate and returns True, in src/03 the psycopg2.Error leaves the gate
check_if_update_needed_read_error(v) ==
  IF v = "supabase" THEN "import" ELSE "raise"

\* ------------------------------------------------------------------------
\* Rows of the CSV files (string-keyed records, as parse_csv_content returns)
\* ------------------------------------------------------------------------
LinkRow(f, d, k) ==
  CASE f = "Datasheets_stratagems.csv" -> [datasheet_id |-> d, stratagem_id |-> k]
    [] f = "Datasheets_enhancements.csv" -> [datasheet_id |-> d, enhancement_id |-> k]
    [] OTHER -> [datasheet_id |-> d, detachment_ability_id |-> k]

\* a row of the two files with stat columns, as the header of the file
\* names them
StatRow(f, d, line) ==
  IF f = "Datasheets_models.csv"
  THEN [datasheet_id |-> d, line |-> line,
        M |-> "6in", T |-> "4", Sv |-> "3+", W |-> "2", Ld |-> "6+", OC |-> "1"]
  ELSE [datasheet_id |-> d, line |-> line, line_in_wargear |-> line,
        A |-> "2", BS_WS |-> "3+", S |-> "4", AP |-> "-1", D |-> "D3"]

\* the rows a file is fed with: two rows of one key or owner that differ in
\* another column, and one row of a second key or owner
RawRows(f) ==
  CASE f = "Factions.csv" ->
         {[id |-> "k1", name |-> "n1"], [id |-> "k1", name |-> "n2"],
          [id |-> "k2", name |-> "n1"]}
    [] f = "Source.csv" ->
         {[id |-> "k1", name |-> "n1", errata_date |-> << "5", ".", "3", ".", "2", "4", " ", "0" >>],
          [id |-> "k1", name |-> "n2", errata_date |-> << "2", "0", "2", "4" >>],
          [id |-> "k2", name |-> "n1", errata_date |-> << >>]}
    [] f = "Datasheets.csv" ->
         {[id |-> "d1", faction_id |-> "", source_id |-> "", name |-> "n1", virtual |-> Str_true],
          [id |-> "d1", faction_id |-> "F1", source_id |-> "s1", name |-> "n2", virtual |-> Str_false],
          [id |-> "d2", faction_id |-> "F1", source_id |-> "", name |-> "n1", virtual |-> << >>]}
    [] f \in FactionRoots \ {"Datasheets.csv"} ->
         {[id |-> "k1", faction_id |-> "", name |-> "n1"],
          [id |-> "k1", faction_id |-> "F1", name |-> "n2"],
          [id |-> "k2", faction_id |-> "F1", name |-> "n1"]}
    [] f = "Datasheets_abilities.csv" ->
         {[datasheet_id |-> "d1", line |-> << "1" >>, ability_id |-> ""],
          [datasheet_id |-> "d1", line |-> << "1" >>, ability_id |-> "k1"],
          [datasheet_id |-> "d1", line |-> << "1" >>, ability_id |-> "k2"],
          [datasheet_id |-> "d2", line |-> << "1" >>, ability_id |-> "k1"]}
    [] f = "Datasheets_keywords.csv" ->
         {[datasheet_id |-> "d1", keyword |-> "kw", is_faction_keyword |-> Str_true],
          [datasheet_id |-> "d1", keyword |-> "kw", is_faction_keyword |-> Str_false],
          [datasheet_id |-> "d2", keyword |-> "kw", is_faction_keyword |-> Str_true]}
    [] f = "Datasheets_models.csv" ->
         {StatRow(f, "d1", << "1" >>), StatRow(f, "d1", << "2" >>), StatRow(f, "d2", << "1" >>)}
    [] f = "Datasheets_wargear.csv" ->
         {StatRow(f, "d1", << "1" >>), StatRow(f, "d1", << "x" >>), StatRow(f, "d2", << >>)}
    [] f \in LineFiles ->
         {[datasheet_id |-> "d1", line |-> << "1" >>], [datasheet_id |-> "d1", line |-> << "2" >>],
          [datasheet_id |-> "d2", line |-> << "1" >>]}
    [] f \in LinkFiles ->
         {LinkRow(f, "d1", "k1"), LinkRow(f, "d1", "k2"), LinkRow(f, "d2", "k1")}
    [] f = "Datasheets_leader.csv" ->
         {[datasheet_id |-> "d1", attached_datasheet_id |-> "d1"],
          [datasheet_id |-> "d1", attached_datasheet_id |-> "d2"],
          [datasheet_id |-> "d2", attached_datasheet_id |-> "d1"]}
    [] OTHER -> {}

\* the second reference of a stored dependent row: None when it is NULL or
\* the table has none
RefOf(f, row) ==
  CASE f = "Datasheets_abilities.csv" -> row.ability_id
    [] f = "Datasheets_stratagems.csv" -> Some(row.stratagem_id)
    [] f = "Datasheets_enhancements.csv" -> Some(row.enhancement_id)
    [] f = "Datasheets_detachment_abilities.csv" -> Some(row.detachment_ability_id)
    [] f = "Datasheets_leader.csv" -> Some(row.attached_datasheet_id)
    [] OTHER -> None

\* set(row['id'] for row in response.data)
Ids(table) == {r.id : r \in table}

\* a snapshot that takes every datasheet id of the files for stored
get_valid_datasheet_ids_all(st) == DatasheetIds

\* a snapshot that misses d2, the datasheet a Datasheets batch brings
get_valid_datasheet_ids_stale(st) == Ids(st.roots["Datasheets.csv"]) \ {"d2"}

\* the snapshot of the datasheets keys, read from the store as it is now
get_valid_datasheet_ids(st) == Ids(st.roots["Datasheets.csv"])


\* ------------------------------------------------------------------------
\* Import functions of the root entities
\* ------------------------------------------------------------------------
\* the per-row fixups before the write
fix_root_row(f, v, row) ==
  CASE f = "Source.csv" ->
         \* src/03 sends the string of the file
         [row EXCEPT !.errata_date = IF v = "supabase" THEN convert_date(Some(@)) ELSE Some(@)]
    [] f = "Datasheets.csv" ->
         [row EXCEPT !.virtual = convert_boolean(Some(@)),
                     !.faction_id = IF v = "supabase" /\ @ = "" THEN "UN" ELSE @,
                     !.source_id = IF v = "supabase" /\ @ = "" THEN "000000012" ELSE @]
    [] f \in FactionRoots \ {"Datasheets.csv"} ->
         [row EXCEPT !.faction_id = IF v = "supabase" /\ @ = "" THEN "UN" ELSE @]
    [] OTHER -> row

\* a deduplication that keeps the first row of every id
root_batch_first(f, v, data) ==
  LET fixed == [i \in 1..Len(data) |-> fix_root_row(f, v, data[i])]
      first == SelectIdx(Len(fixed), LAMBDA i : \A j \in 1..(i - 1) : fixed[j].id # fixed[i].id)
  IN IF v = "supabase" /\ f \in FactionRoots
     THEN [m \in 1..Len(first) |-> fixed[first[m]]]
     ELSE fixed

\* the rows handed to the store: src/02 deduplicates the five roots with a
\* faction_id by id, src/03 executes one statement per row of data
root_batch(f, v, data) ==
  LET fixed == [i \in 1..Len(data) |-> fix_root_row(f, v, data[i])]
  IN IF v = "supabase" /\ f \in FactionRoots
     THEN dict_values(fixed, LAMBDA r : r.id)
     ELSE fixed

\* INSERT .. ON CONFLICT (id) DO NOTHING
upsert_row_do_nothing(table, v, row, now) ==
  IF row.id \in Ids(table) THEN table ELSE table \cup {[date_imported |-> 0] @@ row}

\* INSERT .. ON CONFLICT (id) DO UPDATE of one row. date_imported is 0 for
\* the column default of a fresh row; src/03 sets it to CURRENT_TIMESTAMP
\* (now) on conflict, the upsert of src/02 does not send the column.
upsert_row(table, v, row, now) ==
  IF row.id \in Ids(table)
  THEN LET old == CHOOSE r \in table : r.id = row.id
       IN {r \in table : r.id # row.id} \cup
          {[date_imported |-> IF v = "psycopg2" THEN now ELSE old.date_imported] @@ row}
  ELSE table \cup {[date_imported |-> 0] @@ row}

\* a write that replaces the table by the rows of the batch
upsert_replace(table, v, rows, now) ==
  LET F[i \in 0..Len(rows)] ==
        IF i = 0 THEN {} ELSE upsert_row(F[i - 1], v, rows[i], now)
  IN F[Len(rows)]

upsert(table, v, rows, now) ==
  LET F[i \in 0..Len(rows)] ==
        IF i = 0 THEN table ELSE upsert_row(F[i - 1], v, rows[i], now)
  IN F[Len(rows)]

\* ------------------------------------------------------------------------
\* Import functions of the dependent entities
\* ------------------------------------------------------------------------
\* the conversions applied to a row before it is inserted
convert_row(f, v, row) ==
  CASE f = "Datasheets_abilities.csv" ->
         [datasheet_id |-> row.datasheet_id,
          line |-> convert_int(Some(row.line)),
          ability_id |-> IF v = "supabase" /\ row.ability_id = ""
                         THEN None ELSE Some(row.ability_id)]
    [] f = "Datasheets_keywords.csv" ->
         [row EXCEPT !.is_faction_keyword = convert_boolean(Some(row.is_faction_keyword))]
    [] f = "Datasheets_models.csv" ->
         \* src/02 renames the stat keys of the row; src/03 names the columns
         \* M .. OC in an INSERT whose unquoted identifiers the store folds
         \* to lower case
         [datasheet_id |-> row.datasheet_id, line |-> convert_int(Some(row.line)),
          m |-> row.M, t |-> row.T, sv |-> row.Sv, w |-> row.W, ld |-> row.Ld, oc |-> row.OC]
    [] f = "Datasheets_wargear.csv" ->
         [datasheet_id |-> row.datasheet_id, line |-> convert_int(Some(row.line)),
          line_in_wargear |-> convert_int(Some(row.line_in_wargear)),
          a |-> row.A, bs_ws |-> row.BS_WS, s |-> row.S, ap |-> row.AP, d |-> row.D]
    [] f \in LineFiles -> [row EXCEPT !.line = convert_int(Some(row.line))]
    [] OTHER -> row

\* the test without the check of the owner key
row_is_valid_no_owner(f, v, row, valid_datasheet_ids, valid_ability_ids) ==
  CASE v = "psycopg2" -> TRUE
    [] f = "Datasheets_abilities.csv" ->
         row.ability_id = "" \/ row.ability_id \in valid_ability_ids
    [] f = "Datasheets_leader.csv" ->
         row.attached_datasheet_id \in valid_datasheet_ids
    [] OTHER -> TRUE

\* the test that keeps a row of data; src/03 has none
row_is_valid(f, v, row, valid_datasheet_ids, valid_ability_ids) ==
  CASE v = "psycopg2" -> TRUE
    [] f = "Datasheets_abilities.csv" ->
         /\ row.datasheet_id \in valid_datasheet_ids
         /\ row.ability_id = "" \/ row.ability_id \in valid_ability_ids
    [] f = "Datasheets_leader.csv" ->
         /\ row.datasheet_id \in valid_datasheet_ids
         /\ row.attached_datasheet_id \in valid_datasheet_ids
    [] OTHER -> row.datasheet_id \in valid_datasheet_ids

\* an import function that deletes nothing before it inserts
datasheet_ids_none(f, v, data, valid_datasheet_ids) == {}

\* the owner keys whose stored rows the function deletes
datasheet_ids(f, v, data, valid_datasheet_ids) ==
  IF v = "psycopg2" \/ f = "Datasheets_abilities.csv"
  THEN {row.datasheet_id : row \in Range(data)}
  ELSE {row.datasheet_id : row \in {r \in Range(data) : r.datasheet_id \in valid_datasheet_ids}}

valid_data(f, v, data, valid_datasheet_ids, valid_ability_ids) ==
  LET kept == Filter(data, LAMBDA r : row_is_valid(f, v, r, valid_datasheet_ids, valid_ability_ids))
  IN [i \in 1..Len(kept) |-> convert_row(f, v, kept[i])]

\* the composite key of the two deduplicated dependents
dedup_key(f, row) ==
  IF f = "Datasheets_keywords.csv" THEN << row.datasheet_id, row.keyword >>
  ELSE << row.datasheet_id, row.attached_datasheet_id >>

\* the rows handed to insert
deduplicated_data(f, v, data, valid_datasheet_ids, valid_ability_ids) ==
  LET vd == valid_data(f, v, data, valid_datasheet_ids, valid_ability_ids)
  IN IF v = "supabase" /\ f \in {"Datasheets_keywords.csv", "Datasheets_leader.csv"}
     THEN dict_values(vd, LAMBDA r : dedup_key(f, r))
     ELSE vd

\* the count printed as skipped; src/03 prints none
skipped_count(f, v, data, valid_datasheet_ids, valid_ability_ids) ==
  IF v = "psycopg2" THEN 0
  ELSE IF f = "Datasheets_leader.csv"
  THEN Len(data) - Len(deduplicated_data(f, v, data, valid_datasheet_ids, valid_ability_ids))
  ELSE Len(data) - Len(valid_data(f, v, data, valid_datasheet_ids, valid_ability_ids))

\* a delete without the filter on datasheet_id
delete_owners_all(table, ids) == EmptyBag

\* delete().eq('datasheet_id', d) for every d of ids
delete_owners(table, ids) == BagSelect(table, LAMBDA r : r.datasheet_id \notin ids)

\* an insert that stores equal rows of a batch once
insert_distinct(table, rows) == table (+) SetToBag(Range(rows))

\* insert(rows): unconditional append
insert(table, rows) == table (+) BagOfSeq(rows)

\* ------------------------------------------------------------------------
\* State
\* ------------------------------------------------------------------------
VARIABLES
  variant,        \* which of the two scripts runs
  tz,             \* the suffix the REST store puts on a timestamp it returns
  flaky,          \* whether a read of the stored marker can fail
  feed,           \* what the web server holds: file -> rows (entity files)
  store,          \* the tables as the connection of the run sees them
  committed,      \* the tables as they are durably stored
  pc,             \* position in main()
  run,            \* number of runs of main() started
  lu_content,     \* rows of Last_update.csv served during this run
  new_timestamp,  \* last_update_data[0]['last_update']
  csv_data,       \* file -> rows downloaded in step 2
  idx,            \* position of the import loop in CSV_FILES
  max_before,     \* the stored maximum marker when the run started (None: no marker)
  writes,         \* store requests of this run that changed a table
  fetched,        \* files whose download this run attempted
  last,           \* what the last import function did
  done,           \* the tables and data at the end of the last completed run
  obs,            \* what this run did so far, as seen from outside
  value,          \* the argument of a conversion function
  out             \* the conversion applied to value and what it returned

vars == << variant, tz, flaky, feed, store, committed, pc, run, lu_content,
           new_timestamp, csv_data, idx, max_before, writes, fetched, last,
           done, obs, value, out >>

\* value and out belong to the conversions, the rest to main()
conv == << value, out >>

EntityFiles == Files \ {"Last_update.csv"}

EmptyStore ==
  [last_update |-> {},
   roots |-> [f \in RootFiles |-> {}],
   deps |-> [f \in DepFiles |-> EmptyBag]]

NoData == [f \in Files |-> << >>]

NoLast ==
  [file |-> "none", ok |-> FALSE, data |-> << >>, kept |-> << >>,
   deleted |-> {}, skipped |-> 0, pre |-> EmptyStore]

\* step1: how the first download of Last_update.csv ended; read_ok, gate:
\* whether the gate could read the stored marker, and what the gate did;
\* imported: the files whose import function touched the store, in order;
\* summary: the summary block was printed; before: the tables as they were
\* stored when the run started
NoObs ==
  [step1 |-> "none", read_ok |-> TRUE, gate |-> "none", imported |-> << >>,
   summary |-> FALSE, before |-> EmptyStore]

NoOut == [fn |-> "none", result |-> None]

NoDone ==
  [valid |-> FALSE, store |-> EmptyStore, data |-> NoData,
   marker |-> [fmt |-> "garbage", secs |-> 0], run |-> 0]

Min(a, b) == IF a <= b THEN a ELSE b

Take(rows, n) == SubSeq(rows, 1, Min(n, Len(rows)))

MaxOf(last_update) == IF last_update = {} THEN None ELSE Some(SetMax(last_update))

\* ------------------------------------------------------------------------
\* The store before the first modelled run: empty, or what earlier imports
\* left (every stored dependent row belongs to a stored datasheet)
\* ------------------------------------------------------------------------
PriorRootRow(f, id) ==
  CASE f = "Datasheets.csv" ->
         [id |-> id, faction_id |-> "F1", source_id |-> "s1", name |-> "n1",
          virtual |-> Some(FALSE), date_imported |-> 0]
    [] f \in FactionRoots \ {"Datasheets.csv"} ->
         [id |-> id, faction_id |-> "F1", name |-> "n1", date_imported |-> 0]
    [] f = "Source.csv" ->
         [id |-> id, name |-> "n1", errata_date |-> None, date_imported |-> 0]
    [] OTHER -> [id |-> id, name |-> "n1", date_imported |-> 0]

PriorDepRows(f, d) ==
  CASE f = "Datasheets_abilities.csv" ->
         << [datasheet_id |-> d, line |-> << "1" >>, ability_id |-> "k1"],
            [datasheet_id |-> d, line |-> << "1" >>, ability_id |-> ""],
            [datasheet_id |-> d, line |-> << "1" >>, ability_id |-> "k1"] >>
    [] f = "Datasheets_keywords.csv" ->
         << [datasheet_id |-> d, keyword |-> "kw", is_faction_keyword |-> Str_true] >>
    [] f \in {"Datasheets_models.csv", "Datasheets_wargear.csv"} ->
         << StatRow(f, d, << "1" >>), StatRow(f, d, << "2" >>), StatRow(f, d, << "1" >>) >>
    [] f \in LineFiles ->
         << [datasheet_id |-> d, line |-> << "1" >>], [datasheet_id |-> d, line |-> << "2" >>],
            [datasheet_id |-> d, line |-> << "1" >>] >>
    [] f \in LinkFiles -> << LinkRow(f, d, "k1") >>
    [] OTHER -> << [datasheet_id |-> d, attached_datasheet_id |-> "d1"] >>

PriorStore(p, v, focus) ==
  LET ds == IF p = "one" THEN {"d1"} ELSE DatasheetIds
      rows(f) == IF p = "one" THEN Take(PriorDepRows(f, "d1"), 1)
                 ELSE PriorDepRows(f, "d1") \o Take(PriorDepRows(f, "d2"), 2)
  IN IF p = "empty" THEN EmptyStore
     ELSE [last_update |-> {1},
           roots |-> [f \in RootFiles |->
                        IF f = "Datasheets.csv" THEN {PriorRootRow(f, d) : d \in ds}
                        ELSE {PriorRootRow(f, "k1")}],
           deps |-> [f \in DepFiles |->
                       IF f = focus
                       THEN BagOfSeq([i \in 1..Len(rows(f)) |-> convert_row(f, v, rows(f)[i])])
                       ELSE EmptyBag]]

\* ------------------------------------------------------------------------
\* What the web server holds: rows for the file under study and for the
\* roots its rows are validated against, none for the other files
\* ------------------------------------------------------------------------
Batches(f) == UNION {[1..n -> RawRows(f)] : n \in 0..MaxLen}

\* the row of Datasheets.csv that comes with a dependent file under study
NewDatasheet ==
  << [id |-> "d2", faction_id |-> "F1", source_id |-> "", name |-> "n1", virtual |-> << >>] >>

\* the stores and Datasheets.csv contents a file is studied with
Scenarios(focus) ==
  IF focus \in DepFiles
  THEN {[prior |-> "empty", datasheets |-> NewDatasheet],
        [prior |-> "one", datasheets |-> << >>],
        [prior |-> "one", datasheets |-> NewDatasheet],
        [prior |-> "two", datasheets |-> << >>]}
  ELSE {[prior |-> "empty", datasheets |-> << >>],
        [prior |-> "one", datasheets |-> << >>]}

Feed(focus, b, sc) ==
  [f \in EntityFiles |->
     IF f = focus THEN b
     ELSE IF f = "Datasheets.csv" THEN sc.datasheets
     ELSE << >>]

\* Last_update.csv: no data row, or one row with a timestamp string
LastUpdateContents ==
  {<< >>} \cup {<< [last_update |-> m] >> : m \in MarkerStrings}

\* main() has not been called yet
NotStarted ==
  /\ pc = "idle"
  /\ run = 0
  /\ lu_content = << >>
  /\ new_timestamp = [fmt |-> "garbage", secs |-> 0]
  /\ csv_data = NoData
  /\ idx = 1
  /\ max_before = None
  /\ writes = 0
  /\ fetched = {}
  /\ last = NoLast
  /\ done = NoDone
  /\ obs = NoObs

InitWith(vs, tzs, fl, focuses) ==
  \E v \in vs, focus \in focuses :
   \E sc \in Scenarios(focus), b \in Batches(focus) :
    /\ variant = v
    /\ tz \in tzs
    /\ flaky \in fl
    /\ feed = Feed(focus, b, sc)
    /\ store = PriorStore(sc.prior, v, focus)
    /\ committed = store
    /\ NotStarted
    /\ value = None
    /\ out = NoOut

\* the last_update column is a timestamp without time zone (src/03 compares
\* the value it reads with a naive datetime): the REST store adds no suffix
Init == InitWith(Variants, {""}, {FALSE}, EntityFiles)

InitSupabase == InitWith({"supabase"}, {""}, {FALSE}, EntityFiles)

\* runs against a store whose reads can fail, for a root without and with
\* fixups and a dependent with a second reference
InitFlaky ==
  InitWith(Variants, {""}, {TRUE},
           {"Factions.csv", "Stratagems.csv", "Datasheets_stratagems.csv"})

\* ------------------------------------------------------------------------
\* main()
\* ------------------------------------------------------------------------
\* what a download of file f returns in this run
Upstream(f) == IF f = "Last_update.csv" THEN lu_content ELSE feed[f]

\* an import loop that calls the import function of every file, with or
\* without rows
Current_all ==
  IF idx > Len(CSV_FILES) THEN 0 ELSE idx

\* the position of the next file of CSV_FILES the import loop calls an
\* import function for (0: none is left); files with no rows are passed over
Current ==
  LET pending == {j \in idx..Len(CSV_FILES) : csv_data[CSV_FILES[j]] # << >>}
  IN IF pending = {} THEN 0 ELSE CHOOSE j \in pending : \A k \in pending : j <= k

\* a store that makes every statement of src/03 durable at once
Persist_autocommit(v, new_store, old_committed) == new_store

\* src/02 commits every request; src/03 commits once, in Finish
Persist(v, new_store, old_committed) ==
  IF v = "supabase" THEN new_store ELSE old_committed

\* Step 1: download and parse Last_update.csv, connect. A failed download and
\* a file without data row both end the run before the store is touched.
StartRun ==
  /\ pc \in {"idle", "done", "skipped", "failed"}
  /\ run < MaxRuns
  /\ run' = run + 1
  /\ \/ \* download_csv raises requests.RequestException
        /\ lu_content' = << >>
        /\ pc' = "failed"
        /\ obs' = [NoObs EXCEPT !.step1 = "transport_error", !.before = committed]
        /\ UNCHANGED new_timestamp
     \/ \E c \in LastUpdateContents :
          /\ lu_content' = c
          /\ IF c = << >>
             THEN /\ pc' = "failed"
                  /\ obs' = [NoObs EXCEPT !.step1 = "empty", !.before = committed]
                  /\ UNCHANGED new_timestamp
             ELSE /\ pc' = "gate"
                  /\ obs' = [NoObs EXCEPT !.step1 = "ok", !.before = committed]
                  /\ new_timestamp' = c[1].last_update
  /\ store' = committed
  /\ max_before' = MaxOf(committed.last_update)
  /\ writes' = 0
  /\ fetched' = {"Last_update.csv"}
  /\ last' = NoLast
  /\ csv_data' = NoData
  /\ idx' = 1
  /\ UNCHANGED << variant, tz, flaky, feed, committed, done, conv >>

\* if not check_if_update_needed(...): return
Gate ==
  /\ pc = "gate"
  /\ \E read_ok \in (IF flaky THEN BOOLEAN ELSE {TRUE}) :
       LET r == IF read_ok
                THEN check_if_update_needed(variant, store.last_update, tz, new_timestamp)
                ELSE check_if_update_needed_read_error(variant)
       IN /\ pc' = CASE r = "import" -> "download"
                      [] r = "skip" -> "skipped"
                      [] OTHER -> "failed"
          /\ obs' = [obs EXCEPT !.read_ok = read_ok, !.gate = r]
  /\ UNCHANGED << variant, tz, flaky, feed, store, committed, run, lu_content,
                  new_timestamp, csv_data, idx, max_before, writes, fetched,
                  last, done, conv >>

\* Step 2: every file of CSV_FILES is downloaded; a failed download leaves []
Download ==
  /\ pc = "download"
  /\ \E failed \in SUBSET {f \in Files : Upstream(f) # << >>} :
       /\ Cardinality(failed) <= MaxFailed
       /\ csv_data' = [f \in Files |-> IF f \in failed THEN << >> ELSE Upstream(f)]
  /\ fetched' = Files
  /\ idx' = 1
  /\ pc' = "import"
  /\ UNCHANGED << variant, tz, flaky, feed, store, committed, run, lu_content,
                  new_timestamp, max_before, writes, last, done, obs, conv >>

\* an exception (store error) or the end of the process at any point after
\* the connection is open: src/03 rolls back, src/02 has nothing to undo
Crash ==
  /\ pc \in {"gate", "download", "import"}
  /\ pc' = "failed"
  /\ store' = committed
  /\ UNCHANGED << variant, tz, flaky, feed, committed, run, lu_content, new_timestamp,
                  csv_data, idx, max_before, writes, fetched, last, done, obs,
                  conv >>

AtFile(f) == pc = "import" /\ Current # 0 /\ CSV_FILES[Current] = f

\* a timestamp column takes the instants of well-formed strings only
import_last_update ==
  /\ AtFile("Last_update.csv")
  /\ LET data == csv_data["Last_update.csv"]
         new_store == [store EXCEPT !.last_update =
                         @ \cup {strptime(data[i].last_update).secs : i \in 1..Len(data)}]
     IN IF \A i \in 1..Len(data) : strptime_ok(data[i].last_update)
        THEN /\ store' = new_store
             /\ committed' = Persist(variant, new_store, committed)
             /\ writes' = writes + 1
             /\ idx' = Current + 1
             /\ last' = [file |-> "Last_update.csv", ok |-> TRUE, data |-> data,
                         kept |-> data, deleted |-> {}, skipped |-> 0, pre |-> store]
             /\ obs' = [obs EXCEPT !.imported = Append(@, "Last_update.csv")]
             /\ pc' = "import"
        ELSE \* the store rejects the string: the exception ends main()
             /\ store' = committed
             /\ pc' = "failed"
             /\ last' = [file |-> "Last_update.csv", ok |-> FALSE, data |-> data,
                         kept |-> << >>, deleted |-> {}, skipped |-> 0, pre |-> store]
             /\ UNCHANGED << committed, writes, idx, obs >>
  /\ UNCHANGED << variant, tz, flaky, feed, run, lu_content, new_timestamp, csv_data,
                  max_before, fetched, done, conv >>

ImportRoot(f) ==
  /\ AtFile(f)
  /\ LET data == csv_data[f]
         rows == root_batch(f, variant, data)
         new_store == [store EXCEPT !.roots[f] = upsert(@, variant, rows, run)]
     IN /\ store' = new_store
        /\ committed' = Persist(variant, new_store, committed)
        /\ writes' = writes + (IF variant = "supabase" THEN 1 ELSE Len(rows))
        /\ last' = [file |-> f, ok |-> TRUE, data |-> data, kept |-> rows,
                    deleted |-> {}, skipped |-> 0, pre |-> store]
  /\ idx' = Current + 1
  /\ obs' = [obs EXCEPT !.imported = Append(@, f)]
  /\ UNCHANGED << variant, tz, flaky, feed, pc, run, lu_content, new_timestamp,
                  csv_data, max_before, fetched, done, conv >>

ImportDep(f) ==
  /\ AtFile(f)
  /\ LET data == csv_data[f]
         valid_datasheet_ids == get_valid_datasheet_ids(store)
         valid_ability_ids == Ids(store.roots["Abilities.csv"])
         ids == datasheet_ids(f, variant, data, valid_datasheet_ids)
         rows == deduplicated_data(f, variant, data, valid_datasheet_ids, valid_ability_ids)
         skipped == skipped_count(f, variant, data, valid_datasheet_ids, valid_ability_ids)
         deletes == IF variant = "supabase" THEN Cardinality(ids)
                    ELSE IF ids = {} THEN 0 ELSE 1
         inserts == IF variant = "psycopg2" THEN Len(rows)
                    ELSE IF rows = << >> THEN 0 ELSE 1
     IN \/ \* every request succeeds
           LET new_store == [store EXCEPT !.deps[f] = insert(delete_owners(@, ids), rows)]
           IN /\ store' = new_store
              /\ committed' = Persist(variant, new_store, committed)
              /\ writes' = writes + deletes + inserts
              /\ last' = [file |-> f, ok |-> TRUE, data |-> data, kept |-> rows,
                          deleted |-> ids, skipped |-> skipped, pre |-> store]
              /\ idx' = Current + 1
              /\ pc' = "import"
        \/ \* src/02: a request fails after the deletes of some owners went through
           /\ variant = "supabase"
           /\ \E D \in SUBSET ids :
                /\ D # {}
                /\ LET new_store == [store EXCEPT !.deps[f] = delete_owners(@, D)]
                   IN /\ store' = new_store
                      /\ committed' = new_store
                      /\ writes' = writes + Cardinality(D)
                      /\ last' = [file |-> f, ok |-> FALSE, data |-> data, kept |-> << >>,
                                  deleted |-> D, skipped |-> 0, pre |-> store]
           /\ pc' = "failed"
           /\ UNCHANGED idx
  /\ obs' = [obs EXCEPT !.imported = Append(@, f)]
  /\ UNCHANGED << variant, tz, flaky, feed, run, lu_content, new_timestamp, csv_data,
                  max_before, fetched, done, conv >>

import_factions == ImportRoot("Factions.csv")
import_source == ImportRoot("Source.csv")
import_stratagems == ImportRoot("Stratagems.csv")
import_abilities == ImportRoot("Abilities.csv")
import_enhancements == ImportRoot("Enhancements.csv")
import_detachment_abilities == ImportRoot("Detachment_abilities.csv")
import_datasheets == ImportRoot("Datasheets.csv")
import_datasheets_abilities == ImportDep("Datasheets_abilities.csv")
import_datasheets_keywords == ImportDep("Datasheets_keywords.csv")
import_datasheets_models == ImportDep("Datasheets_models.csv")
import_datasheets_options == ImportDep("Datasheets_options.csv")
import_datasheets_wargear == ImportDep("Datasheets_wargear.csv")
import_datasheets_unit_composition == ImportDep("Datasheets_unit_composition.csv")
import_datasheets_models_cost == ImportDep("Datasheets_models_cost.csv")
import_datasheets_stratagems == ImportDep("Datasheets_stratagems.csv")
import_datasheets_enhancements == ImportDep("Datasheets_enhancements.csv")
import_datasheets_detachment_abilities == ImportDep("Datasheets_detachment_abilities.csv")
import_datasheets_leader == ImportDep("Datasheets_leader.csv")

\* the import loop is through: src/03 commits, the summary is printed
Finish ==
  /\ pc = "import"
  /\ Current = 0
  /\ committed' = store
  /\ pc' = "done"
  /\ done' = [valid |-> TRUE, store |-> store, data |-> csv_data,
              marker |-> new_timestamp, run |-> run]
  /\ obs' = [obs EXCEPT !.summary = TRUE]
  /\ UNCHANGED << variant, tz, flaky, feed, store, run, lu_content, new_timestamp,
                  csv_data, idx, max_before, writes, fetched, last, conv >>

Import ==
  \/ import_last_update
  \/ import_factions
  \/ import_source
  \/ import_stratagems
  \/ import_abilities
  \/ import_enhancements
  \/ import_detachment_abilities
  \/ import_datasheets
  \/ import_datasheets_abilities
  \/ import_datasheets_keywords
  \/ import_datasheets_models
  \/ import_datasheets_options
  \/ import_datasheets_wargear
  \/ import_datasheets_unit_composition
  \/ import_datasheets_models_cost
  \/ import_datasheets_stratagems
  \/ import_datasheets_enhancements
  \/ import_datasheets_detachment_abilities
  \/ import_datasheets_leader

Next == StartRun \/ Gate \/ Download \/ Crash \/ Import \/ Finish

Spec == Init /\ [][Next]_vars


\* src/02_import_from_web.py alone
SpecSupabase == InitSupabase /\ [][Next]_vars

\* both scripts against a store whose reads can fail
SpecFlaky == InitFlaky /\ [][Next]_vars

\* src/02 against a store whose last_update column carries a time zone: the
\* REST store returns the timestamp with a 'Z' or '+00:00' suffix
InitTz ==
  InitWith({"supabase"}, TzSuffixes \ {""}, {FALSE},
           {"Factions.csv", "Stratagems.csv", "Datasheets_stratagems.csv"})

SpecTz == InitTz /\ [][Next]_vars

\* src/03_import_from_web.py alone
InitPsycopg2 == InitWith({"psycopg2"}, {""}, {FALSE}, EntityFiles)

SpecPsycopg2 == InitPsycopg2 /\ [][Next]_vars

\* ------------------------------------------------------------------------
\* The conversion functions, each applied to one argument
\* ------------------------------------------------------------------------
main == << variant, tz, flaky, feed, store, committed, pc, run, lu_content,
           new_timestamp, csv_data, idx, max_before, writes, fetched, last,
           done, obs >>

InitConvert ==
  /\ value \in {None} \cup {Some(str) : str \in Strings \cup DateStrings}
  /\ out = NoOut
  /\ variant = "supabase"
  /\ tz = ""
  /\ flaky = FALSE
  /\ feed = [f \in EntityFiles |-> << >>]
  /\ store = EmptyStore
  /\ committed = EmptyStore
  /\ NotStarted

apply_convert_boolean ==
  /\ out.fn = "none"
  /\ out' = [fn |-> "convert_boolean", result |-> convert_boolean(value)]
  /\ UNCHANGED << value, main >>

apply_convert_int ==
  /\ out.fn = "none"
  /\ out' = [fn |-> "convert_int", result |-> convert_int(value)]
  /\ UNCHANGED << value, main >>

apply_convert_date ==
  /\ out.fn = "none"
  /\ out' = [fn |-> "convert_date", result |-> convert_date(value)]
  /\ UNCHANGED << value, main >>

NextConvert == apply_convert_boolean \/ apply_convert_int \/ apply_convert_date

SpecConvert == InitConvert /\ [][NextConvert]_vars

\* ------------------------------------------------------------------------
\* Properties
\* ------------------------------------------------------------------------
Owners(rows) == {rows[i].datasheet_id : i \in 1..Len(rows)}

OfOwner(table, d) == BagSelect(table, LAMBDA r : r.datasheet_id = d)

\* the last import function was one of a dependent entity, it returned, and
\* nothing has undone its writes
AfterDep == last.ok /\ last.file \in DepFiles /\ pc \in {"import", "done"}

\* C1: after the gate read the store and decided on a well-formed incoming
\* marker, the run goes on to import exactly when the store holds no marker or the incoming
\* marker is strictly greater than the stored maximum; otherwise it skips.
C1_GateDecision ==
  ( /\ pc \in {"download", "skipped"}
    /\ obs.read_ok
    /\ store.last_update = {} \/ strptime_ok(new_timestamp) )
    => ( (pc = "download") <=>
           (store.last_update = {} \/ new_timestamp.secs > SetMax(store.last_update)) )

C1_Witness ==
  /\ pc = "skipped"
  /\ strptime_ok(new_timestamp)
  /\ store.last_update # {}
  /\ new_timestamp.secs = SetMax(store.last_update)

\* C2: while an entity of the run is still to be written, the durably stored
\* maximum marker is not yet the marker of this run.
C2_MarkerWrittenLast ==
  (pc = "import" /\ Current # 0 /\ strptime_ok(new_timestamp))
    => MaxOf(committed.last_update) # Some(new_timestamp.secs)

\* C3: a run that ended in a fatal abort leaves the stored maximum marker as
\* it was when the run started.
C3_AbortKeepsMarker ==
  pc = "failed" => MaxOf(committed.last_update) = max_before

\* C4: after the import of a dependent entity, every owner of a kept row has
\* exactly the kept rows of that owner stored, and every owner without a row
\* in the incoming batch has its stored rows unchanged.
C4_ReplaceByOwner ==
  AfterDep =>
    \A d \in DatasheetIds :
      /\ d \in Owners(last.kept) =>
           OfOwner(store.deps[last.file], d)
             = BagOfSeq(Filter(last.kept, LAMBDA r : r.datasheet_id = d))
      /\ d \notin Owners(last.data) =>
           OfOwner(store.deps[last.file], d) = OfOwner(last.pre.deps[last.file], d)

C4_Witness ==
  /\ AfterDep
  /\ last.file = "Datasheets_models.csv"
  /\ BagCardinality(OfOwner(last.pre.deps[last.file], "d1")) = 3
  /\ BagCardinality(OfOwner(last.pre.deps[last.file], "d2")) = 2
  /\ Len(last.data) = 1
  /\ Owners(last.data) = {"d1"}
  /\ BagCardinality(OfOwner(store.deps[last.file], "d1")) = 1
  /\ BagCardinality(OfOwner(store.deps[last.file], "d2")) = 2

\* C5: the owner keys a dependent import deletes the stored rows of are the
\* owner keys of the rows it kept and inserted.
C5_DeletedAreKeptOwners ==
  (last.ok /\ last.file \in DepFiles) => last.deleted = Owners(last.kept)

\* C6: every row a dependent import inserts has its owner and its non-null
\* second reference among the keys of the referenced root tables.
C6_ForeignKeysResolve ==
  (last.ok /\ last.file \in DepFiles) =>
    \A i \in 1..Len(last.kept) :
      LET r == last.kept[i]
          ref == RefOf(last.file, r)
      IN /\ r.datasheet_id \in Ids(last.pre.roots["Datasheets.csv"])
         /\ ref # None => ref[1] \in Ids(last.pre.roots[RefRoot(last.file)])

IsOrphan(row) == row.datasheet_id \notin Ids(last.pre.roots["Datasheets.csv"])

\* C7: a dependent row whose datasheet_id is not a stored datasheet is not
\* inserted and counts as skipped; a row of Datasheets_abilities with a blank
\* ability_id and a stored datasheet_id is inserted, with a NULL ability_id.
C7_OrphanFiltering ==
  (last.ok /\ last.file \in DepFiles) =>
    /\ \A i \in 1..Len(last.kept) : ~IsOrphan(last.kept[i])
    /\ last.skipped >= CountRows(last.data, IsOrphan)
    /\ last.file \in LineFiles \cup LinkFiles \cup {"Datasheets_keywords.csv"}
         => last.skipped = CountRows(last.data, IsOrphan)
    /\ last.file = "Datasheets_abilities.csv" =>
         /\ CountRows(last.kept, LAMBDA r : r.ability_id = None)
              = CountRows(last.data, LAMBDA r : r.ability_id = "" /\ ~IsOrphan(r))
         /\ pc \in {"import", "done"} =>
              \A i \in 1..Len(last.kept) : BagIn(last.kept[i], store.deps[last.file])

C7_Witness ==
  /\ AfterDep
  /\ last.file = "Datasheets_abilities.csv"
  /\ last.skipped = 1
  /\ \E i \in 1..Len(last.data) : IsOrphan(last.data[i])
  /\ \E r \in DOMAIN store.deps[last.file] : r.ability_id = None

\* C8: every durably stored dependent row belongs to a stored datasheet.
C8_OwnersResolve ==
  \A f \in DepFiles :
    \A r \in DOMAIN committed.deps[f] :
      r.datasheet_id \in Ids(committed.roots["Datasheets.csv"])

C8_Witness ==
  /\ pc \in {"done", "failed"}
  /\ run = MaxRuns
  /\ last.file \in DepFiles
  /\ \E i \in 1..Len(last.data) : IsOrphan(last.data[i])
  /\ committed.deps[last.file] # EmptyBag

\* C9: a run whose marker is the maximum already stored is stopped by the
\* gate when the gate could read the store; a run the gate stopped has written nothing and fetched no file
\* apart from Last_update.csv.
C9_SkipWritesNothing ==
  /\ pc = "skipped" =>
       /\ writes = 0
       /\ fetched = {"Last_update.csv"}
       /\ store = committed
  /\ (pc \in {"download", "import", "done"} /\ obs.read_ok /\ strptime_ok(new_timestamp))
       => max_before # Some(new_timestamp.secs)

C9_Witness ==
  /\ pc = "skipped"
  /\ done.valid /\ run = done.run + 1
  /\ done.marker = new_timestamp
  /\ max_before = Some(new_timestamp.secs)
  /\ writes = 0

SameEntityData == \A f \in EntityFiles : csv_data[f] = done.data[f]

\* C10: when the import loop of a run is through, and the run before it
\* completed and had the same entity data and a strictly smaller marker, every
\* entity table holds the rows it held at the end of that run.
C10_SameDataSameTables ==
  ( /\ pc = "import" /\ Current = 0
    /\ done.valid /\ run = done.run + 1
    /\ SameEntityData
    /\ strptime_ok(new_timestamp) /\ strptime_ok(done.marker)
    /\ new_timestamp.secs > done.marker.secs )
    => /\ store.roots = done.store.roots
       /\ store.deps = done.store.deps

C10_Witness ==
  /\ pc = "import" /\ Current = 0
  /\ done.valid /\ run = done.run + 1
  /\ SameEntityData
  /\ strptime_ok(new_timestamp) /\ strptime_ok(done.marker)
  /\ new_timestamp.secs > done.marker.secs
  /\ writes > 1
  /\ \E f \in DepFiles : BagCardinality(store.deps[f]) = 2

\* C11: whenever the gate could not read the stored marker or could not
\* parse the incoming one, its answer is "import": it neither raises nor
\* skips.
C11_GateFailsOpen ==
  (obs.gate # "none" /\ (~obs.read_ok \/ ~strptime_ok(new_timestamp)))
    => obs.gate = "import"

BatchOwners ==
  IF "Datasheets.csv" \in Range(obs.imported)
  THEN {r.id : r \in Range(csv_data["Datasheets.csv"])}
  ELSE {}

\* C13: when the import function of a dependent entity has returned, every
\* row of its data whose owner is a datasheet of this run's Datasheets batch
\* (and whose second reference passes its own test) was kept: it is among the
\* rows handed to insert, or a later row of the same dedup key is, and the
\* rows handed to insert are in the table.
C13_SnapshotSeesRunWrites ==
  (last.ok /\ last.file \in DepFiles /\ pc \in {"import", "done"}) =>
    LET f == last.file
        keyed == f \in {"Datasheets_keywords.csv", "Datasheets_leader.csv"}
    IN /\ \A i \in 1..Len(last.data) :
            LET row == last.data[i]
            IN ( /\ row.datasheet_id \in BatchOwners
                 /\ row_is_valid_no_owner(f, variant, row,
                                          Ids(store.roots["Datasheets.csv"]),
                                          Ids(store.roots["Abilities.csv"])) )
               => \/ convert_row(f, variant, row) \in Range(last.kept)
                  \/ /\ keyed
                     /\ \E k \in Range(last.kept) :
                          dedup_key(f, k) = dedup_key(f, convert_row(f, variant, row))
       /\ \A k \in Range(last.kept) : k \in DOMAIN store.deps[f]

\* the store was empty when the run started, and a unit composition row of
\* a datasheet that came with this run is in the table
C13_Witness ==
  /\ run = 1 /\ max_before = None
  /\ pc = "done"
  /\ last.ok /\ last.file = "Datasheets_unit_composition.csv"
  /\ \E r \in DOMAIN store.deps[last.file] : r.datasheet_id \in BatchOwners

\* C14: a run does not end as failed because the store rejected the rows of
\* one entity (here: a timestamp string the last_update column cannot take,
\* the connection stays usable).
C14_SoftFailureGoesOn ==
  (last.file = "Last_update.csv" /\ ~last.ok) => pc # "failed"

\* C15: a transport error of a download never ends the run as failed.
C15_TransportFailureNotFatal ==
  obs.step1 = "transport_error" => pc # "failed"

\* the fields of a batch row are the fields of the stored row r
SameFields(row, r) == \A c \in DOMAIN row : r[c] = row[c]

\* i is the last position of its key in rows
LastOfKey(rows, i, Key(_)) == \A j \in (i + 1)..Len(rows) : Key(rows[j]) # Key(rows[i])

\* C16: after the import function of an entity with a declared key has
\* returned, the rows it handed to the store have pairwise different keys,
\* and for every key of its input the table holds one row of that key, with
\* the values of the last input row of the key.
C16_DedupLastWins ==
  (last.ok /\ pc \in {"import", "done"}) =>
    LET f == last.file
        kept == last.kept
    IN /\ f \in FactionRoots =>
            /\ \A i, j \in 1..Len(kept) : i # j => kept[i].id # kept[j].id
            /\ \A i \in 1..Len(last.data) :
                 LastOfKey(last.data, i, LAMBDA r : r.id) =>
                   \E r \in store.roots[f] :
                     /\ SameFields(fix_root_row(f, variant, last.data[i]), r)
                     /\ \A q \in store.roots[f] : q.id = r.id => q = r
       /\ f \in {"Datasheets_keywords.csv", "Datasheets_leader.csv"} =>
            LET ok(r) == row_is_valid(f, variant, r, Ids(store.roots["Datasheets.csv"]),
                                      Ids(store.roots["Abilities.csv"]))
                valid == Filter(last.data, ok)
            IN /\ \A i, j \in 1..Len(kept) :
                    i # j => dedup_key(f, kept[i]) # dedup_key(f, kept[j])
               /\ \A i \in 1..Len(valid) :
                    LastOfKey(valid, i, LAMBDA r : dedup_key(f, r)) =>
                      LET row == convert_row(f, variant, valid[i])
                      IN /\ row \in DOMAIN store.deps[f]
                         /\ store.deps[f][row] = 1
                         /\ \A q \in DOMAIN store.deps[f] :
                              dedup_key(f, q) = dedup_key(f, row) => q = row

\* two stratagems rows of one id and different names came in, the second
\* one is stored
C16_Witness ==
  /\ last.ok /\ pc = "done"
  /\ last.file = "Stratagems.csv"
  /\ Len(last.data) = 2
  /\ last.data[1].id = last.data[2].id
  /\ last.data[1].name # last.data[2].name
  /\ \E r \in store.roots["Stratagems.csv"] :
       r.id = last.data[2].id /\ r.name = last.data[2].name

\* C17: the stored maximum marker is never below what it was when the run
\* started, and a run whose incoming marker is not later than that maximum
\* leaves every entity table as it was when the run started.
C17_MonotonicMarker ==
  /\ max_before # None =>
       /\ committed.last_update # {}
       /\ SetMax(committed.last_update) >= max_before[1]
  /\ ( /\ run > 0 /\ max_before # None
       /\ strptime_ok(new_timestamp)
       /\ new_timestamp.secs <= max_before[1] )
       => /\ committed.roots = obs.before.roots
          /\ committed.deps = obs.before.deps

\* C18: after the import function of a root entity has returned, the table
\* holds exactly one row for every key of the batch, with the values of a
\* batch row of that key in all its fields, and the rows of the other keys
\* are the rows the table held before.
C18_RootUpsert ==
  (last.ok /\ last.file \in RootFiles /\ pc \in {"import", "done"}) =>
    LET f == last.file
        pre == last.pre.roots[f]
        post == store.roots[f]
        batch == last.kept
        keys == {batch[i].id : i \in 1..Len(batch)}
    IN /\ \A k \in keys :
            \E r \in post :
              /\ r.id = k
              /\ \E i \in 1..Len(batch) : batch[i].id = k /\ SameFields(batch[i], r)
              /\ \A q \in post : q.id = k => q = r
       /\ {r \in post : r.id \notin keys} = {r \in pre : r.id \notin keys}

\* a factions batch overwrote the name of a stored row and brought a new key
C18_Witness ==
  /\ last.ok /\ last.file = "Factions.csv" /\ pc = "done"
  /\ \E r \in last.pre.roots["Factions.csv"] :
       \E i, j \in 1..Len(last.kept) :
         /\ last.kept[i].id = r.id
         /\ last.kept[i].name # r.name
         /\ last.kept[j].id \notin Ids(last.pre.roots["Factions.csv"])
         /\ \E q \in store.roots["Factions.csv"] :
              q.id = r.id /\ q.name = last.kept[i].name

\* C19: once the downloads of step 2 are through, a run that ends, ends
\* with the summary printed, whether it completed or failed.
C19_SummaryAlwaysEmitted ==
  (pc \in {"done", "failed"} /\ fetched = Files) => obs.summary

\* the string spells true in any mix of upper and lower case
IsTrueAnyCase(str) ==
  /\ Len(str) = 4
  /\ str[1] \in {"t", "T"}
  /\ str[2] \in {"r", "R"}
  /\ str[3] \in {"u", "U"}
  /\ str[4] \in {"e", "E"}

\* C20: convert_boolean gives null for a missing or empty value, true for
\* a string that spells true in any case, and false for every other string.
C20_ConvertBoolean ==
  out.fn = "convert_boolean" =>
    IF value = None \/ value = Some(<< >>)
    THEN out.result = None
    ELSE out.result = Some(IsTrueAnyCase(value[1]))

C20_Witness ==
  /\ out.fn = "convert_boolean"
  /\ value = Some(<< "T", "r", "u", "E" >>)
  /\ out.result = Some(TRUE)

\* the segment of a date, padded to two digits
Pad2(x) ==
  CASE Len(x) = 0 -> << "0", "0" >>
    [] Len(x) = 1 -> << "0", x[1] >>
    [] OTHER -> x

\* C21: convert_date turns a d.m.y string, with or without a time after a
\* blank, into y-m-d with day and month padded to two digits; a missing or
\* empty value, or a date part that has not exactly three segments between
\* dots, gives null.
C21_ConvertDate ==
  out.fn = "convert_date" =>
    IF value = None \/ value = Some(<< >>)
    THEN out.result = None
    ELSE LET str == value[1]
             blanks == {i \in 1..Len(str) : str[i] = " "}
             stop == IF blanks = {} THEN Len(str) + 1
                     ELSE CHOOSE i \in blanks : \A j \in blanks : i <= j
             dots == {i \in 1..(stop - 1) : str[i] = "."}
         IN IF Cardinality(dots) = 2
            THEN LET p == CHOOSE i \in dots : \A j \in dots : i <= j
                     q == CHOOSE i \in dots : \A j \in dots : j <= i
                     day == SubSeq(str, 1, p - 1)
                     month == SubSeq(str, p + 1, q - 1)
                     year == SubSeq(str, q + 1, stop - 1)
                 IN out.result =
                      Some(year \o << "-" >> \o Pad2(month) \o << "-" >> \o Pad2(day))
            ELSE out.result = None

C21_Witness ==
  /\ out.fn = "convert_date"
  /\ value = Some(<< "0", "5", ".", "0", "3", ".", "2", "0", "2", "4",
                     " ", "0", ":", "0", "0", ":", "0", "0" >>)
  /\ out.result = Some(<< "2", "0", "2", "4", "-", "0", "3", "-", "0", "5" >>)

\* the number a string of digits spells
DecimalValue(str) ==
  LET Pow10[k \in 0..Len(str)] == IF k = 0 THEN 1 ELSE 10 * Pow10[k - 1]
      Sum[i \in 0..Len(str)] ==
        IF i = 0 THEN 0 ELSE Sum[i - 1] + DigitVal[str[i]] * Pow10[Len(str) - i]
  IN Sum[Len(str)]

\* C26: convert_int gives null for a missing or empty value, the integer
\* for a string of decimal digits, and null for a string with a character
\* that is neither a digit nor a blank.
C26_ConvertInt ==
  out.fn = "convert_int" =>
    /\ value = None \/ value = Some(<< >>) => out.result = None
    /\ value # None /\ value # Some(<< >>) =>
         LET str == value[1]
         IN /\ (\A i \in 1..Len(str) : str[i] \in Digits) =>
                 out.result = Some(DecimalValue(str))
            /\ (\E i \in 1..Len(str) : str[i] \notin Digits \cup {" "}) =>
                 out.result = None

C26_Witness ==
  /\ out.fn = "convert_int"
  /\ value = Some(<< "1", "t" >>)
  /\ out.result = None

\* the rows of data an import function of a dependent file keeps, before
\* any deduplication
KeptOfData ==
  Filter(last.data,
         LAMBDA row : row_is_valid(last.file, variant, row,
                                   get_valid_datasheet_ids(last.pre),
                                   Ids(last.pre.roots["Abilities.csv"])))

\* C22: no stored row of stratagems, abilities, enhancements,
\* detachment_abilities or datasheets has a blank faction_id, no stored
\* datasheets row has a blank source_id, and the rows of models and wargear
\* are written with the lowercase stat columns holding the values of the
\* file.
C22_Fixups ==
  /\ \A f \in FactionRoots : \A r \in store.roots[f] : r.faction_id # ""
  /\ \A r \in store.roots["Datasheets.csv"] : r.source_id # ""
  /\ last.ok /\ last.file = "Datasheets_models.csv" =>
       /\ Len(last.kept) = Len(KeptOfData)
       /\ \A i \in 1..Len(last.kept) :
            LET w == last.kept[i]
                row == KeptOfData[i]
            IN /\ DOMAIN w \cap {"M", "T", "Sv", "W", "Ld", "OC"} = {}
               /\ << w.m, w.t, w.sv, w.w, w.ld, w.oc >>
                    = << row.M, row.T, row.Sv, row.W, row.Ld, row.OC >>
  /\ last.ok /\ last.file = "Datasheets_wargear.csv" =>
       /\ Len(last.kept) = Len(KeptOfData)
       /\ \A i \in 1..Len(last.kept) :
            LET w == last.kept[i]
                row == KeptOfData[i]
            IN /\ DOMAIN w \cap {"A", "BS_WS", "S", "AP", "D"} = {}
               /\ << w.a, w.bs_ws, w.s, w.ap, w.d >>
                    = << row.A, row.BS_WS, row.S, row.AP, row.D >>

\* C23: after a run that passed the gate with a well-formed incoming marker
\* and came to its end without an error, the largest stored marker is the
\* incoming marker the gate compared.
C23_MarkerRecorded ==
  pc = "done" /\ obs.gate = "import" /\ strptime_ok(new_timestamp) =>
    MaxOf(committed.last_update) = Some(strptime(new_timestamp).secs)

\* C24: the skipped count an import function of a dependent file reports
\* is the number of rows of data dropped because a reference did not
\* resolve; the rows dropped as duplicates of a kept row are not in it.
C24_SkippedCountsOrphans ==
  last.ok /\ last.file \in DepFiles =>
    /\ last.skipped = Len(last.data) - Len(KeptOfData)
    /\ Len(last.kept) + last.skipped + (Len(KeptOfData) - Len(last.kept)) = Len(last.data)

\* C25: in src/02, when the store returns its latest marker with a 'Z' or
\* offset suffix and the incoming marker is well formed and not later than
\* it, the gate returns False (skip).
C25_SuffixedMarkerSkips ==
  ( /\ variant = "supabase"
    /\ obs.gate # "none"
    /\ obs.read_ok
    /\ tz \in {"Z", "+00:00"}
    /\ max_before # None
    /\ strptime_ok(new_timestamp)
    /\ strptime(new_timestamp).secs <= max_before[1] )
  => obs.gate = "skip"

\* C27: in src/03 nothing a run writes is durable before its commit: while
\* the run is under way, and after it ended in a rollback, every table,
\* last_update included, holds the rows it held when the run started; the
\* commit makes all the writes of the run durable together.
C27_AllOrNothing ==
  variant = "psycopg2" =>
    /\ pc \in {"gate", "download", "import", "failed", "skipped"} => committed = obs.before
    /\ pc = "done" => committed = store

C27_Witness ==
  /\ variant = "psycopg2"
  /\ pc = "failed"
  /\ Len(obs.imported) >= 2
  /\ obs.imported[1] = "Last_update.csv"
  /\ last.ok /\ last.kept # << >>
  /\ strptime(new_timestamp).secs \notin committed.last_update
  /\ committed = obs.before

\* C28: no step of a run removes a key from a root table: the keys of the
\* durable tables only grow, and so do the keys a run sees in its own
\* writes, up to a rollback.
C28_RootKeysOnlyGrow ==
  [][ \A f \in RootFiles :
        /\ Ids(committed.roots[f]) \subseteq Ids(committed'.roots[f])
        /\ pc' # "failed" => Ids(store.roots[f]) \subseteq Ids(store'.roots[f]) ]_vars

C28_Witness ==
  /\ pc = "done"
  /\ last.ok
  /\ last.file \in RootFiles
  /\ last.data # << >>
  /\ \E r \in last.pre.roots[last.file] :
       /\ \A i \in 1..Len(last.data) : last.data[i].id # r.id
       /\ r.id \in Ids(committed.roots[last.file])

\* the table an import function of file f writes
TableOf(st, f) ==
  CASE f = "Last_update.csv" -> st.last_update
    [] f \in RootFiles -> st.roots[f]
    [] OTHER -> st.deps[f]

\* C29: once the files are fetched, a file whose batch is empty has no
\* import function called in the run and its table holds the rows it held
\* when the run started; the files with rows are all imported by the end of
\* the run.
C29_EmptyBatchUntouched ==
  fetched = Files =>
    \A f \in Files :
      /\ csv_data[f] = << >> =>
           /\ f \notin Range(obs.imported)
           /\ TableOf(store, f) = TableOf(obs.before, f)
           /\ TableOf(committed, f) = TableOf(obs.before, f)
      /\ csv_data[f] # << >> /\ pc = "done" => f \in Range(obs.imported)

C29_Witness ==
  /\ pc = "done"
  /\ \E f \in EntityFiles, g \in Files :
       /\ feed[f] # << >> /\ csv_data[f] = << >>
       /\ g # f /\ g \in Range(obs.imported)
       /\ TableOf(committed, g) # TableOf(obs.before, g)
       /\ TableOf(committed, f) = TableOf(obs.before, f)

\* C30: when the import function of a dependent entity without a
\* deduplication step has returned, the table holds, for every owner of the
\* rows of data, as many rows as data has rows of that owner that passed
\* validation.
C30_NoDedupKeepsEveryRow ==
  AfterDep /\ last.file \in LineFiles \cup LinkFiles =>
    \A d \in Owners(last.data) :
      BagCardinality(OfOwner(store.deps[last.file], d))
        = CountRows(KeptOfData, LAMBDA row : row.datasheet_id = d)

C30_Witness ==
  /\ AfterDep
  /\ variant = "supabase"
  /\ last.file = "Datasheets_models.csv"
  /\ Len(last.data) = 2
  /\ last.data[1] = last.data[2]
  /\ Len(KeptOfData) = 2
  /\ BagCardinality(OfOwner(store.deps[last.file], last.data[1].datasheet_id)) = 2
  /\ Cardinality(DOMAIN store.deps[last.file]) = 1

====
